---- MODULE Spec2Model ----
(***************************************************************************)
(* Model of the student-performance pipeline of model.py as app.py's       *)
(* main() drives it: calculate_student_metrics, then                       *)
(* calculate_average_performance, identify_strengths_weaknesses and        *)
(* generate_recommendations.                                               *)
(*                                                                         *)
(* A DataFrame is a sequence of rows (records).  A percentage is an exact  *)
(* rational [n, d] in lowest terms, d > 0; NaN, pandas' missing value, is  *)
(* [n |-> 0, d |-> 0].  Python's bool True / False are written "True" /    *)
(* "False", the strings 'true' / 'false' are written "true" / "false".     *)
(***************************************************************************)
EXTENDS Integers, Sequences, FiniteSets, TLC

VARIABLES data, pc, student_section_performance, student_overall,
          avg_section_performance, avg_overall_performance,
          strengths_weaknesses, recommendations, all_sections, raised, call,
          database, new_student_data, evaluation, previous

vars == <<data, pc, student_section_performance, student_overall,
          avg_section_performance, avg_overall_performance,
          strengths_weaknesses, recommendations, all_sections, raised, call,
          database, new_student_data, evaluation, previous>>

\* The file data/student_data.csv and the upload read at app.py line 27.
storage == <<database, new_student_data>>

(***************************************************************************)
(* Bounds of the model.                                                    *)
(***************************************************************************)
NumStudents == 2
MaxRecords == 2
QuestionsPerSection == 2
MaxScoreTenths == 1000
MaxDiffTenths == 52

(***************************************************************************)
(* Numbers.                                                                *)
(***************************************************************************)
NaN == [n |-> 0, d |-> 0]

IsNaN(x) == x.d = 0

Abs(i) == IF i < 0 THEN -i ELSE i

RECURSIVE GCD(_, _)
GCD(a, b) == IF b = 0 THEN a ELSE GCD(b, a % b)

\* The rational n/d in lowest terms; x/0 is NaN (0/0 in a float division).
Rat(n, d) ==
    IF d = 0 THEN NaN
    ELSE LET g == GCD(Abs(n), Abs(d))
             s == IF d < 0 THEN -1 ELSE 1
         IN [n |-> (s * n) \div g, d |-> (s * d) \div g]

Num(i) == [n |-> i, d |-> 1]

Add(x, y) == IF IsNaN(x) \/ IsNaN(y) THEN NaN
             ELSE Rat(x.n * y.d + y.n * x.d, x.d * y.d)

Sub(x, y) == IF IsNaN(x) \/ IsNaN(y) THEN NaN
             ELSE Rat(x.n * y.d - y.n * x.d, x.d * y.d)

Mul(x, y) == IF IsNaN(x) \/ IsNaN(y) THEN NaN
             ELSE Rat(x.n * y.n, x.d * y.d)

Div(x, y) == IF IsNaN(x) \/ IsNaN(y) THEN NaN
             ELSE Rat(x.n * y.d, x.d * y.n)

\* Comparisons: every comparison with NaN is false.
Lt(x, y) == ~IsNaN(x) /\ ~IsNaN(y) /\ x.n * y.d < y.n * x.d
Gt(x, y) == Lt(y, x)
Ge(x, y) == ~IsNaN(x) /\ ~IsNaN(y) /\ x.n * y.d >= y.n * x.d

AbsR(x) == IF IsNaN(x) THEN NaN ELSE [n |-> Abs(x.n), d |-> x.d]

\* f"{x:.1f}": x in tenths, rounded to the nearest tenth, a tie to the even one.
Fmt1(x) ==
    IF IsNaN(x) THEN [nan |-> TRUE, tenths |-> 0]
    ELSE LET a == Abs(x.n) * 10
             q == a \div x.d
             r == a % x.d
             up == (2 * r > x.d) \/ (2 * r = x.d /\ q % 2 = 1)
             m == IF up THEN q + 1 ELSE q
         IN [nan |-> FALSE, tenths |-> IF x.n < 0 THEN -m ELSE m]

(***************************************************************************)
(* Sequences.                                                              *)
(***************************************************************************)
RECURSIVE SelectRows(_, _)
\* The rows of df at which keep[i] holds, in order (boolean indexing).
SelectRows(df, keep) ==
    IF df = <<>> THEN <<>>
    ELSE LET rest == SelectRows(Tail(df), Tail(keep))
         IN IF Head(keep) THEN <<Head(df)>> \o rest ELSE rest

Range(s) == {s[i] : i \in 1..Len(s)}

RECURSIVE SumR(_)
SumR(s) == IF s = <<>> THEN Num(0) ELSE Add(Head(s), SumR(Tail(s)))

RECURSIVE Flatten(_)
Flatten(ss) == IF ss = <<>> THEN <<>> ELSE Head(ss) \o Flatten(Tail(ss))

\* The elements of a finite set of integers in ascending order.
RECURSIVE Ascending(_)
Ascending(S) ==
    IF S = {} THEN <<>>
    ELSE LET m == CHOOSE x \in S : \A y \in S : x <= y
         IN <<m>> \o Ascending(S \ {m})

(***************************************************************************)
(* The dataset: columns student_id, section, is_correct.                   *)
(***************************************************************************)
Sections == <<"A", "B", "C", "D">>

Students == 1..NumStudents

Bools == {"True", "False"}

\* What an is_correct cell of a dataset holds: a bool, or a string ('yes' stands
\* for every string that is neither 'true' nor 'false').
Cells == {"True", "False", "true", "false", "yes"}

\* The dtype of the is_correct column: bool when every cell is a bool.
dtype(df) ==
    IF df # <<>> /\ \A i \in 1..Len(df) : df[i].is_correct \in Bools
    THEN "bool" ELSE "object"

\* Series.map({'true': True, 'false': False}): a cell that is no key is NaN.
MapCell(v) ==
    CASE v = "true" -> "True"
      [] v = "false" -> "False"
      [] OTHER -> "NaN"

\* model.py lines 11-12: the column is rewritten in place.
ConvertIsCorrect(df) ==
    IF dtype(df) = "object"
    THEN [i \in 1..Len(df) |-> [df[i] EXCEPT !.is_correct = MapCell(@)]]
    ELSE df

(***************************************************************************)
(* calculate_student_metrics (model.py lines 6-25).                        *)
(***************************************************************************)
\* agg 'sum' of a group of is_correct cells: True is 1, False is 0, NaN is skipped.
AggSum(df) == Cardinality({i \in 1..Len(df) : df[i].is_correct = "True"})

\* agg 'count' of a group: the cells that are not NaN.
AggCount(df) == Cardinality({i \in 1..Len(df) : df[i].is_correct # "NaN"})

\* (sum / count) * 100
Percentage(sum, count) == Mul(Div(Num(sum), Num(count)), Num(100))

StudentIds(df) == {df[i].student_id : i \in 1..Len(df)}

GroupRows(df, sid, sec) ==
    SelectRows(df, [i \in 1..Len(df) |->
                      df[i].student_id = sid /\ df[i].section = sec])

StudentRows(df, sid) ==
    SelectRows(df, [i \in 1..Len(df) |-> df[i].student_id = sid])

\* groupby(['student_id', 'section']): one row per key that occurs, keys sorted.
SectionPerformance(df) ==
    LET ids == Ascending(StudentIds(df))
        rowOf(sid, k) ==
            LET g == GroupRows(df, sid, Sections[k])
            IN IF g = <<>> THEN <<>>
               ELSE <<[student_id |-> sid, section |-> Sections[k],
                       sum |-> AggSum(g), count |-> AggCount(g),
                       score_percentage |-> Percentage(AggSum(g), AggCount(g))]>>
        ofStudent(sid) == Flatten([k \in 1..Len(Sections) |-> rowOf(sid, k)])
    IN Flatten([j \in 1..Len(ids) |-> ofStudent(ids[j])])

\* groupby('student_id'): one row per student, keys sorted.
OverallPerformance(df) ==
    LET ids == Ascending(StudentIds(df))
    IN [j \in 1..Len(ids) |->
          LET g == StudentRows(df, ids[j])
          IN [student_id |-> ids[j], sum |-> AggSum(g), count |-> AggCount(g),
              overall_score |-> Percentage(AggSum(g), AggCount(g))]]

(***************************************************************************)
(* calculate_average_performance (model.py lines 27-34).                   *)
(***************************************************************************)
\* Series.mean(): the mean of the values that are not NaN; NaN when there is none.
Mean(xs) ==
    LET ok == SelectRows(xs, [i \in 1..Len(xs) |-> ~IsNaN(xs[i])])
    IN Div(SumR(ok), Num(Len(ok)))

\* AverageSectionPerformance with the pooled ratio in place of the mean of the
\* students' percentages: 100 * (all correct answers) / (all answers).
AverageSectionPerformance_Pooled(ssp) ==
    LET rowOf(k) ==
            LET g == SelectRows(ssp, [i \in 1..Len(ssp) |->
                                        ssp[i].section = Sections[k]])
            IN IF g = <<>> THEN <<>>
               ELSE <<[section |-> Sections[k],
                       avg_score_percentage |->
                           Percentage(SumR([i \in 1..Len(g) |-> Num(g[i].sum)]).n,
                                      SumR([i \in 1..Len(g) |-> Num(g[i].count)]).n)]>>
    IN Flatten([k \in 1..Len(Sections) |-> rowOf(k)])

\* groupby('section')['score_percentage'].mean(): one row per section that occurs.
AverageSectionPerformance(ssp) ==
    LET rowOf(k) ==
            LET g == SelectRows(ssp, [i \in 1..Len(ssp) |->
                                        ssp[i].section = Sections[k]])
            IN IF g = <<>> THEN <<>>
               ELSE <<[section |-> Sections[k],
                       avg_score_percentage |->
                           Mean([i \in 1..Len(g) |-> g[i].score_percentage])]>>
    IN Flatten([k \in 1..Len(Sections) |-> rowOf(k)])

AverageOverallPerformance(so) == Mean([i \in 1..Len(so) |-> so[i].overall_score])

(***************************************************************************)
(* identify_strengths_weaknesses (model.py lines 36-69).                   *)
(***************************************************************************)
\* AvgValues with an average of 0 for a section that has no row.
AvgValues_Default(avg, sec) ==
    LET g == SelectRows(avg, [i \in 1..Len(avg) |-> avg[i].section = sec])
    IN IF g = <<>> THEN <<Num(0)>>
       ELSE [i \in 1..Len(g) |-> g[i].avg_score_percentage]

\* df[df['section'] == section]['avg_score_percentage'].values: the matching values.
AvgValues(avg, sec) ==
    LET g == SelectRows(avg, [i \in 1..Len(avg) |-> avg[i].section = sec])
    IN [i \in 1..Len(g) |-> g[i].avg_score_percentage]

\* unique(): the student ids of the table in order of first appearance.
RECURSIVE Unique(_, _)
Unique(ids, seen) ==
    IF ids = <<>> THEN <<>>
    ELSE IF Head(ids) \in seen THEN Unique(Tail(ids), seen)
         ELSE <<Head(ids)>> \o Unique(Tail(ids), seen \cup {Head(ids)})

UniqueStudents(ssp) == Unique([i \in 1..Len(ssp) |-> ssp[i].student_id], {})

\* .values[0] of an empty selection raises IndexError.
LookupFails(ssp, avg) ==
    \E i \in 1..Len(ssp) : AvgValues(avg, ssp[i].section) = <<>>

\* Lines 47-55: one comparison row per row of the student, in row order.
Comparison(ssp, avg, sid) ==
    LET sd == StudentRows(ssp, sid)
    IN [i \in 1..Len(sd) |->
          LET avg_score == AvgValues(avg, sd[i].section)[1]
          IN [section |-> sd[i].section, score |-> sd[i].score_percentage,
              avg_score |-> avg_score,
              diff |-> Sub(sd[i].score_percentage, avg_score)]]

\* Before with the sort ascending.
Before_Ascending(a, b) == \/ Lt(a.diff, b.diff)
                          \/ ~IsNaN(a.diff) /\ IsNaN(b.diff)

\* sort_values('diff', ascending=False) puts row a before row b.
Before(a, b) == \/ Gt(a.diff, b.diff)
                \/ ~IsNaN(a.diff) /\ IsNaN(b.diff)

\* Line 58: the orders the sort can return.  The default kind, quicksort, is
\* not stable: rows of equal diff come out in any order.  NaN diffs go last.
SortOrders(cmp) ==
    {p \in Permutations(1..Len(cmp)) :
        \A i, j \in 1..Len(cmp) : i < j => ~Before(cmp[p[j]], cmp[p[i]])}

\* TailN with the rows taken from the end backwards, the last row first.
TailN_Reversed(s, k) ==
    LET n == IF Len(s) < k THEN Len(s) ELSE k
    IN [i \in 1..n |-> s[Len(s) + 1 - i]]

\* head(2) and tail(2) of a sequence.
HeadN(s, k) == SubSeq(s, 1, IF Len(s) < k THEN Len(s) ELSE k)
TailN(s, k) == SubSeq(s, IF Len(s) < k THEN 1 ELSE Len(s) - k + 1, Len(s))

\* Lines 60-67: the entry of one student, for each order the sort can return.
Classifications(cmp) ==
    {LET sorted_sections == [i \in 1..Len(cmp) |-> cmp[p[i]].section]
     IN [strengths |-> HeadN(sorted_sections, 2),
         weaknesses |-> TailN(sorted_sections, 2),
         comparison |-> cmp] : p \in SortOrders(cmp)}

(***************************************************************************)
(* get_section_specific_recommendations (model.py lines 155-226).          *)
(* A prose string is [table, section, level, line, relation, args]: the    *)
(* rule table and the place of its template in it, and the values the      *)
(* f-string formats into it.                                               *)
(***************************************************************************)
\* performance_level with the bounds of the levels exclusive.
performance_level_Exclusive(score) ==
    IF Gt(score, Num(80)) THEN "excellent"
    ELSE IF Gt(score, Num(60)) THEN "good"
    ELSE IF Gt(score, Num(40)) THEN "fair"
    ELSE "poor"

\* Line 163.
performance_level(score) ==
    IF Ge(score, Num(80)) THEN "excellent"
    ELSE IF Ge(score, Num(60)) THEN "good"
    ELSE IF Ge(score, Num(40)) THEN "fair"
    ELSE "poor"

\* Line 164.
relation_to_avg(diff) ==
    IF Gt(diff, Num(5)) THEN "above average"
    ELSE IF Lt(diff, Num(-5)) THEN "below average"
    ELSE "at the class average"

\* The fixed strings of the table: no value is formatted into them.
Advice(section, level, line) ==
    [table |-> "all", section |-> section, level |-> level, line |-> line,
     relation |-> "", args |-> <<>>]

\* Lines 166-226: two strings for each level, and a third for "poor".
get_section_specific_recommendations(section, score, avg_score, diff) ==
    LET level == performance_level(score)
        first == [table |-> "all", section |-> section, level |-> level,
                  line |-> 1, relation |-> relation_to_avg(diff),
                  args |-> <<Fmt1(score), Fmt1(AbsR(diff)), Fmt1(avg_score)>>]
    IN IF section \notin Range(Sections) THEN <<>>
       ELSE IF level = "poor"
            THEN <<first, Advice(section, level, 2), Advice(section, level, 3)>>
            ELSE <<first, Advice(section, level, 2)>>

(***************************************************************************)
(* generate_recommendations (model.py lines 71-153).                       *)
(***************************************************************************)
ScoreValues(sd, sec) ==
    LET g == SelectRows(sd, [i \in 1..Len(sd) |-> sd[i].section = sec])
    IN [i \in 1..Len(g) |-> g[i].score_percentage]

\* SectionRecommendations reading the score of the student's first row for
\* every section.
SectionRecommendations_FirstRow(ssp, avg, sid) ==
    LET sd == StudentRows(ssp, sid)
    IN [sec \in Range(Sections) |->
          IF ScoreValues(sd, sec) = <<>> THEN <<>>
          ELSE LET score == sd[1].score_percentage
                   avg_score == AvgValues(avg, sec)[1]
               IN get_section_specific_recommendations(
                      sec, score, avg_score, Sub(score, avg_score))]

\* Lines 92-105: the block of every section of ['A', 'B', 'C', 'D'].
SectionRecommendations(ssp, avg, sid) ==
    LET sd == StudentRows(ssp, sid)
    IN [sec \in Range(Sections) |->
          IF ScoreValues(sd, sec) = <<>> THEN <<>>
          ELSE LET score == ScoreValues(sd, sec)[1]
                   avg_score == AvgValues(avg, sec)[1]
               IN get_section_specific_recommendations(
                      sec, score, avg_score, Sub(score, avg_score))]

\* Lines 119-149: the string of one weakness.  The last branch of every
\* section formats no score.
WeaknessText(weakness, score, avg_score, diff) ==
    IF Lt(score, Num(40))
    THEN [table |-> "weak", section |-> weakness, level |-> "below 40", line |-> 1,
          relation |-> "below",
          args |-> <<Fmt1(score), Fmt1(AbsR(diff)), Fmt1(avg_score)>>]
    ELSE IF Lt(score, Num(60))
    THEN [table |-> "weak", section |-> weakness, level |-> "below 60", line |-> 1,
          relation |-> "below",
          args |-> <<Fmt1(score), Fmt1(AbsR(diff)), Fmt1(avg_score)>>]
    ELSE [table |-> "weak", section |-> weakness, level |-> "else", line |-> 1,
          relation |-> "below",
          args |-> <<Fmt1(AbsR(diff)), Fmt1(avg_score)>>]

\* Lines 110-151: one string per weakness, in the order of the weaknesses.
WeaknessRecommendations(ssp, avg, sw, sid) ==
    LET sd == StudentRows(ssp, sid)
        ws == sw[sid].weaknesses
    IN [i \in 1..Len(ws) |->
          LET score == ScoreValues(sd, ws[i])[1]
              avg_score == AvgValues(avg, ws[i])[1]
          IN WeaknessText(ws[i], score, avg_score, Sub(score, avg_score))]

(***************************************************************************)
(* The pipeline of main() (app.py lines 54-92), one step per call.         *)
(***************************************************************************)
NoCall == [section |-> "", score |-> 0, avg_score |-> 0, done |-> FALSE,
           result |-> <<>>]

Record(sid, sec, v) == [student_id |-> sid, section |-> sec, is_correct |-> v]

Rows == {Record(sid, sec, v) : sid \in Students, sec \in Range(Sections), v \in Cells}

SectionIndex(sec) == CHOOSE k \in 1..Len(Sections) : Sections[k] = sec

\* Row a is not after row b in the order of the keys (student_id, section).
KeyOrder(a, b) ==
    \/ a.student_id < b.student_id
    \/ a.student_id = b.student_id /\ SectionIndex(a.section) <= SectionIndex(b.section)

\* Every dataset of at most MaxRecords rows, with any cells.  groupby sorts by
\* key and nothing reads the place of a row, so the rows are taken in key order.
Datasets ==
    {df \in UNION {[1..k -> Rows] : k \in 0..MaxRecords} :
        \A i \in 1..(Len(df) - 1) : KeyOrder(df[i], df[i + 1])}

\* The rows of one student in one section: q answers, the first c of them right.
Answers(sid, sec, c, q) ==
    [i \in 1..q |-> Record(sid, sec, IF i <= c THEN "True" ELSE "False")]

\* The answer sheets of a student who answers q questions in every section
\* taken; c[k] of them are right, and c[k] = -1 when section k is not taken.
Sheets(sid, q, least) ==
    {Flatten([k \in 1..Len(Sections) |->
                IF c[k] = -1 THEN <<>> ELSE Answers(sid, Sections[k], c[k], q)]) :
        c \in [1..Len(Sections) -> least..q]}

\* Two students: the first answers QuestionsPerSection questions in each of
\* the sections taken, the second one question in every section.
Cohorts ==
    {s1 \o s2 : s1 \in Sheets(1, QuestionsPerSection, -1), s2 \in Sheets(2, 1, 0)}

\* No file data/student_data.csv: read_csv raises FileNotFoundError.
NoDatabase == [exists |-> FALSE, rows |-> <<>>]

\* evaluate_model has not been called.
NoEvaluation == [returned |-> FALSE, accuracy |-> NaN, precision |-> NaN,
                 model_results |-> <<>>]

\* No run of the pipeline has gone before.
NoRun == [ran |-> FALSE, student_section_performance |-> <<>>,
          student_overall |-> <<>>, avg_section_performance |-> <<>>,
          avg_overall_performance |-> NaN, strengths_weaknesses |-> <<>>,
          recommendations |-> <<>>, all_sections |-> "unset"]

\* Nothing stored, uploaded, evaluated or run before.
Fresh ==
    /\ database = NoDatabase
    /\ new_student_data = <<>>
    /\ evaluation = NoEvaluation
    /\ previous = NoRun

Start(df) ==
    /\ Fresh
    /\ data = df
    /\ pc = "metrics"
    /\ student_section_performance = <<>>
    /\ student_overall = <<>>
    /\ avg_section_performance = <<>>
    /\ avg_overall_performance = NaN
    /\ strengths_weaknesses = <<>>
    /\ recommendations = <<>>
    /\ all_sections = "unset"
    /\ raised = "none"
    /\ call = NoCall

Init == \E df \in Datasets \cup Cohorts : Start(df)

\* app.py line 66.  No check of the dataset precedes the grouping and no
\* exception is raised for any cell: the tables are returned whatever data holds.
calculate_student_metrics ==
    /\ pc = "metrics"
    /\ data' = ConvertIsCorrect(data)
    /\ student_section_performance' = SectionPerformance(data')
    /\ student_overall' = OverallPerformance(data')
    /\ pc' = "average"
    /\ UNCHANGED <<avg_section_performance, avg_overall_performance,
                   strengths_weaknesses, recommendations, all_sections, raised, call,
                   storage, evaluation, previous>>

\* app.py line 69.
calculate_average_performance ==
    /\ pc = "average"
    /\ avg_section_performance' = AverageSectionPerformance(student_section_performance)
    /\ avg_overall_performance' = AverageOverallPerformance(student_overall)
    /\ pc' = "classify"
    /\ UNCHANGED <<data, student_section_performance, student_overall,
                   strengths_weaknesses, recommendations, all_sections, raised, call,
                   storage, evaluation, previous>>

\* The dicts {student_id: entry} with an entry of Classifications for each id.
RECURSIVE StrengthsWeaknesses(_, _, _)
StrengthsWeaknesses(ssp, avg, ids) ==
    IF ids = <<>> THEN {<<>>}
    ELSE {(Head(ids) :> c) @@ rest :
             c \in Classifications(Comparison(ssp, avg, Head(ids))),
             rest \in StrengthsWeaknesses(ssp, avg, Tail(ids))}

\* app.py line 88.
identify_strengths_weaknesses ==
    /\ pc = "classify"
    /\ IF LookupFails(student_section_performance, avg_section_performance)
       THEN /\ raised' = "IndexError"
            /\ pc' = "failed"
            /\ UNCHANGED strengths_weaknesses
       ELSE /\ strengths_weaknesses' \in
                  StrengthsWeaknesses(student_section_performance,
                                      avg_section_performance,
                                      UniqueStudents(student_section_performance))
            /\ pc' = "recommend"
            /\ UNCHANGED raised
    /\ UNCHANGED <<data, student_section_performance, student_overall,
                   avg_section_performance, avg_overall_performance,
                   recommendations, all_sections, call, storage, evaluation,
                   previous>>

\* The dict generate_recommendations returns in either mode.
Recommendations(sw, ssp, avg, flag) ==
    LET ids == Range(UniqueStudents(ssp))
    IN IF flag = "True"
       THEN [sid \in ids |-> SectionRecommendations(ssp, avg, sid)]
       ELSE [sid \in ids |-> WeaknessRecommendations(ssp, avg, sw, sid)]

\* app.py lines 91-92 call it with all_sections=True; all_sections=False is
\* the default of the function.
generate_recommendations ==
    /\ pc = "recommend"
    /\ \E flag \in {"True", "False"} :
          /\ all_sections' = flag
          /\ recommendations' = Recommendations(strengths_weaknesses,
                                                student_section_performance,
                                                avg_section_performance, flag)
    /\ pc' = "done"
    /\ UNCHANGED <<data, student_section_performance, student_overall,
                   avg_section_performance, avg_overall_performance,
                   strengths_weaknesses, raised, call, storage, evaluation,
                   previous>>

Next ==
    \/ calculate_student_metrics
    \/ calculate_average_performance
    \/ identify_strengths_weaknesses
    \/ generate_recommendations

Spec == Init /\ [][Next]_vars

(***************************************************************************)
(* get_section_specific_recommendations called on its own: the score and   *)
(* the class average are given in tenths of a percent.                     *)
(***************************************************************************)
Tenths(t) == Rat(t, 10)

\* The scores tried: every multiple of ten percent, a tenth below and above
\* it, and the midpoints.
ScoreTenths == {t \in 0..MaxScoreTenths : t % 100 \in {0, 1, 50, 99}}

Calls ==
    {[section |-> sec, score |-> t, avg_score |-> t - dt, done |-> FALSE,
      result |-> <<>>] :
        sec \in Range(Sections), t \in ScoreTenths,
        dt \in -MaxDiffTenths..MaxDiffTenths}

InitTiers ==
    /\ Fresh
    /\ call \in {c \in Calls : c.avg_score \in 0..MaxScoreTenths}
    /\ pc = "call"
    /\ data = <<>>
    /\ student_section_performance = <<>>
    /\ student_overall = <<>>
    /\ avg_section_performance = <<>>
    /\ avg_overall_performance = NaN
    /\ strengths_weaknesses = <<>>
    /\ recommendations = <<>>
    /\ all_sections = "unset"
    /\ raised = "none"

\* model.py line 103: diff is score - avg_score at the call.
call_get_section_specific_recommendations ==
    /\ pc = "call"
    /\ call' = [call EXCEPT
                  !.done = TRUE,
                  !.result = get_section_specific_recommendations(
                                 call.section, Tenths(call.score),
                                 Tenths(call.avg_score),
                                 Sub(Tenths(call.score), Tenths(call.avg_score)))]
    /\ pc' = "returned"
    /\ UNCHANGED <<data, student_section_performance, student_overall,
                   avg_section_performance, avg_overall_performance,
                   strengths_weaknesses, recommendations, all_sections, raised,
                   storage, evaluation, previous>>

NextTiers == call_get_section_specific_recommendations

SpecTiers == InitTiers /\ [][NextTiers]_vars

(***************************************************************************)
(* The pipeline run twice on the same DataFrame object: the second run     *)
(* gets data as the first run left it.                                     *)
(***************************************************************************)
\* The caller keeps the outputs of the first run and calls the pipeline again.
run_again ==
    /\ pc = "done"
    /\ ~previous.ran
    /\ previous' = [ran |-> TRUE,
                    student_section_performance |-> student_section_performance,
                    student_overall |-> student_overall,
                    avg_section_performance |-> avg_section_performance,
                    avg_overall_performance |-> avg_overall_performance,
                    strengths_weaknesses |-> strengths_weaknesses,
                    recommendations |-> recommendations,
                    all_sections |-> all_sections]
    /\ pc' = "metrics"
    /\ UNCHANGED <<data, student_section_performance, student_overall,
                   avg_section_performance, avg_overall_performance,
                   strengths_weaknesses, recommendations, all_sections, raised,
                   call, storage, evaluation>>

InitRerun == \E df \in Datasets : Start(df)

NextRerun ==
    \/ calculate_student_metrics
    \/ calculate_average_performance
    \/ identify_strengths_weaknesses
    \/ generate_recommendations
    \/ run_again

SpecRerun == InitRerun /\ [][NextRerun]_vars

(***************************************************************************)
(* evaluate_model (model.py lines 228-238), called on any dataset.         *)
(***************************************************************************)
\* PredictionRows with a row for every record of the dataset.
PredictionRows_PerRecord(df) ==
    [i \in 1..Len(df) |->
        [student_id |-> df[i].student_id,
         predicted_performance |-> "Above Average",
         actual_performance |-> "Above Average",
         correct_prediction |-> TRUE]]

\* Lines 233-238: a row for every value of data['student_id'].unique().
PredictionRows(df) ==
    LET ids == Unique([i \in 1..Len(df) |-> df[i].student_id], {})
    IN [j \in 1..Len(ids) |->
          [student_id |-> ids[j],
           predicted_performance |-> "Above Average",
           actual_performance |-> "Above Average",
           correct_prediction |-> TRUE]]

\* Every dataset of at most MaxRecords rows, the rows in any order.
EvaluateInputs == UNION {[1..k -> Rows] : k \in 0..MaxRecords}

InitEvaluate ==
    /\ Fresh
    /\ data \in EvaluateInputs
    /\ pc = "evaluate"
    /\ student_section_performance = <<>>
    /\ student_overall = <<>>
    /\ avg_section_performance = <<>>
    /\ avg_overall_performance = NaN
    /\ strengths_weaknesses = <<>>
    /\ recommendations = <<>>
    /\ all_sections = "unset"
    /\ raised = "none"
    /\ call = NoCall

\* app.py line 95.
evaluate_model ==
    /\ pc = "evaluate"
    /\ evaluation' = [returned |-> TRUE, accuracy |-> Num(95),
                      precision |-> Num(93),
                      model_results |-> PredictionRows(data)]
    /\ pc' = "evaluated"
    /\ UNCHANGED <<data, student_section_performance, student_overall,
                   avg_section_performance, avg_overall_performance,
                   strengths_weaknesses, recommendations, all_sections, raised,
                   call, storage, previous>>

NextEvaluate == evaluate_model

SpecEvaluate == InitEvaluate /\ [][NextEvaluate]_vars

(***************************************************************************)
(* identify_strengths_weaknesses called on its own, with an average table  *)
(* that need not come from the section table it is called with.            *)
(***************************************************************************)
\* Two students who answer one question a section, the first in the sections
\* taken and the second, rightly, in every section; the averages are those of
\* both, or of one of them alone.
ClassifyCalls ==
    {[records |-> s1 \o s2,
      averaged |-> CASE of = "both" -> s1 \o s2
                     [] of = "first" -> s1
                     [] of = "second" -> s2] :
        s1 \in Sheets(1, 1, -1), s2 \in Sheets(2, 1, 1),
        of \in {"both", "first", "second"}}

InitClassify ==
    /\ Fresh
    /\ \E c \in ClassifyCalls :
          /\ data = c.records
          /\ student_section_performance = SectionPerformance(c.records)
          /\ student_overall = OverallPerformance(c.records)
          /\ avg_section_performance =
                AverageSectionPerformance(SectionPerformance(c.averaged))
          /\ avg_overall_performance =
                AverageOverallPerformance(OverallPerformance(c.averaged))
    /\ pc = "classify"
    /\ strengths_weaknesses = <<>>
    /\ recommendations = <<>>
    /\ all_sections = "unset"
    /\ raised = "none"
    /\ call = NoCall

NextClassify == identify_strengths_weaknesses

SpecClassify == InitClassify /\ [][NextClassify]_vars

(***************************************************************************)
(* "New student data" mode (app.py lines 25-52).  A CSV file is a sequence *)
(* of rows whose is_correct is the text of the cell; a cell of a frame     *)
(* read from a file is [dtype, value]: a bool, or the string as written.   *)
(***************************************************************************)
UploadSections == 1
MaxDatabase == 3

CsvCells == {"True", "False", "true", "false", "yes"}

\* The spellings read_csv takes for a bool.
TrueValues == {"True", "true"}
FalseValues == {"False", "false"}

CsvRows ==
    {Record(sid, Sections[k], v) :
        sid \in Students, k \in 1..UploadSections, v \in CsvCells}

\* The files a user can upload: at most MaxRecords rows, in any order.
Uploads == UNION {[1..k -> CsvRows] : k \in 0..MaxRecords}

\* pd.read_csv: a column of bool spellings only is parsed as bool; with any
\* other cell in it the column keeps every cell as the string written.
read_csv(file) ==
    LET isBool == /\ file # <<>>
                  /\ \A i \in 1..Len(file) :
                        file[i].is_correct \in TrueValues \cup FalseValues
        cell(v) == IF isBool
                   THEN [dtype |-> "bool",
                         value |-> IF v \in TrueValues THEN "True" ELSE "False"]
                   ELSE [dtype |-> "str", value |-> v]
    IN [i \in 1..Len(file) |-> [file[i] EXCEPT !.is_correct = cell(@)]]

\* DataFrame.to_csv(index=False): a bool is written True or False, a string
\* as it is.
to_csv(df) == [i \in 1..Len(df) |-> [df[i] EXCEPT !.is_correct = @.value]]

\* The frame as the pipeline takes it: a bool, 'true', 'false', or another string.
AsData(df) ==
    [i \in 1..Len(df) |->
        [df[i] EXCEPT !.is_correct =
            IF @.dtype = "bool" \/ @.value \in {"true", "false"}
            THEN @.value ELSE "yes"]]

\* Lines 34-40: the rows of the first student_id of the upload are dropped
\* from the existing data and the upload is appended.
Merge(existing_data, nsd) ==
    LET new_student_id == nsd[1].student_id
        kept == IF new_student_id \in StudentIds(existing_data)
                THEN SelectRows(existing_data,
                                [i \in 1..Len(existing_data) |->
                                    existing_data[i].student_id # new_student_id])
                ELSE existing_data
    IN kept \o nsd

InitUpload ==
    /\ database = NoDatabase
    /\ new_student_data = <<>>
    /\ evaluation = NoEvaluation
    /\ previous = NoRun
    /\ data = <<>>
    /\ pc = "upload"
    /\ student_section_performance = <<>>
    /\ student_overall = <<>>
    /\ avg_section_performance = <<>>
    /\ avg_overall_performance = NaN
    /\ strengths_weaknesses = <<>>
    /\ recommendations = <<>>
    /\ all_sections = "unset"
    /\ raised = "none"
    /\ call = NoCall

\* Lines 45-49: no database yet, the upload becomes the database.
create_database(file) ==
    /\ ~database.exists
    /\ new_student_data' = read_csv(file)
    /\ database' = [exists |-> TRUE, rows |-> to_csv(new_student_data')]
    /\ data' = AsData(new_student_data')
    /\ raised' = "none"

\* Lines 31-34 with an upload of no rows: unique()[0] raises IndexError, which
\* line 45 does not catch; nothing is saved.
upload_without_rows(file) ==
    /\ database.exists
    /\ read_csv(file) = <<>>
    /\ new_student_data' = <<>>
    /\ raised' = "IndexError"
    /\ UNCHANGED <<database, data>>

\* Lines 31-44: the upload is merged into the database and saved.
merge_upload(file) ==
    /\ database.exists
    /\ read_csv(file) # <<>>
    /\ new_student_data' = read_csv(file)
    /\ LET merged == Merge(read_csv(database.rows), new_student_data')
       IN /\ Len(merged) <= MaxDatabase
          /\ database' = [exists |-> TRUE, rows |-> to_csv(merged)]
          /\ data' = AsData(merged)
    /\ raised' = "none"

\* One run of main() with a file in the uploader; a re-run of the script is
\* another run with the same file.
upload_new_student_data ==
    /\ pc = "upload"
    /\ \E file \in Uploads :
          \/ create_database(file)
          \/ upload_without_rows(file)
          \/ merge_upload(file)
    /\ UNCHANGED <<pc, student_section_performance, student_overall,
                   avg_section_performance, avg_overall_performance,
                   strengths_weaknesses, recommendations, all_sections, call,
                   evaluation, previous>>

NextUpload == upload_new_student_data

SpecUpload == InitUpload /\ [][NextUpload]_vars

(***************************************************************************)
(* Properties of the aggregator.                                           *)
(***************************************************************************)
\* The cells the interface admits: a bool or one of the strings 'true', 'false'.
WellFormedCells == {"True", "False", "true", "false"}

WellFormed(df) == \A i \in 1..Len(df) : df[i].is_correct \in WellFormedCells

\* The records of a (student_id, section) pair, and the true ones among them.
RecordsOf(df, sid, sec) ==
    {i \in 1..Len(df) : df[i].student_id = sid /\ df[i].section = sec}

TrueRecordsOf(df, sid, sec) ==
    {i \in RecordsOf(df, sid, sec) : df[i].is_correct \in {"True", "true"}}

RowsOf(ssp, sid, sec) ==
    {i \in 1..Len(ssp) : ssp[i].student_id = sid /\ ssp[i].section = sec}

\* ssp is the section-aggregate table of the records df.
IsSectionAggregate(df, ssp) ==
    /\ \A sid \in Students, sec \in Range(Sections) :
          Cardinality(RowsOf(ssp, sid, sec)) =
              IF RecordsOf(df, sid, sec) = {} THEN 0 ELSE 1
    /\ \A i \in 1..Len(ssp) :
          LET total == Cardinality(RecordsOf(df, ssp[i].student_id, ssp[i].section))
              correct == Cardinality(TrueRecordsOf(df, ssp[i].student_id, ssp[i].section))
              score == ssp[i].score_percentage
          IN /\ ssp[i].count = total
             /\ ssp[i].sum = correct
             /\ 0 <= ssp[i].sum /\ ssp[i].sum <= ssp[i].count /\ ssp[i].count >= 1
             /\ ~IsNaN(score)
             /\ score.n * total = 100 * correct * score.d

\* C1: for every non-empty set of well-formed records, calculate_student_metrics
\* returns exactly one row per (student_id, section) pair that has a record,
\* with total_count the number of the pair's records, correct_count the number
\* of its true records, 0 <= correct_count <= total_count, total_count >= 1 and
\* score_percentage = 100 * correct_count / total_count.
C1_SectionAggregates ==
    [][(calculate_student_metrics /\ data # <<>> /\ WellFormed(data))
         => IsSectionAggregate(data, student_section_performance')]_vars

\* C3: on an empty record set the aggregator fails with EmptyDatasetError: no
\* aggregate table is handed on and no later stage of the pipeline runs.
C3_EmptyDatasetShortCircuits ==
    (data = <<>> /\ pc # "metrics")
        => (raised = "EmptyDatasetError" /\ pc = "failed")

\* C4: when a record's is_correct is outside {true, false, "true", "false"},
\* aggregation raises MalformedRecordError and returns no aggregate rows.
C4_MalformedRecordRaises ==
    [][(calculate_student_metrics /\ ~WellFormed(data))
         => (raised' = "MalformedRecordError" /\ pc' = "failed"
             /\ student_section_performance' = <<>>)]_vars

\* What normalization is to make of a well-formed cell.
Normalized(v) == IF v \in {"True", "true"} THEN "True" ELSE "False"

\* C5: normalization maps "true" to true and "false" to false and leaves a
\* boolean unchanged, also when booleans and strings occur in the same record
\* set; a record whose is_correct is the boolean true counts as correct.
C5_NormalizationKeepsBooleans ==
    [][(calculate_student_metrics /\ WellFormed(data))
         => /\ \A i \in 1..Len(data) :
                  data'[i].is_correct = Normalized(data[i].is_correct)
            /\ \A i \in 1..Len(student_section_performance') :
                  LET row == student_section_performance'[i]
                  IN row.sum >= Cardinality(
                         {j \in RecordsOf(data, row.student_id, row.section) :
                             data[j].is_correct = "True"})]_vars

(***************************************************************************)
(* Properties of the cohort averages.                                      *)
(***************************************************************************)
SectionRowsOf(ssp, sec) == {i \in 1..Len(ssp) : ssp[i].section = sec}

RECURSIVE Product(_, _)
\* The product of f[i] over the finite set S.
Product(f, S) ==
    IF S = {} THEN 1
    ELSE LET i == CHOOSE x \in S : TRUE IN f[i] * Product(f, S \ {i})

RECURSIVE Sum(_, _)
Sum(f, S) ==
    IF S = {} THEN 0
    ELSE LET i == CHOOSE x \in S : TRUE IN f[i] + Sum(f, S \ {i})

\* a is the arithmetic mean of the score_percentage of the rows I of ssp:
\* a * |I| = sum of the scores, over the common denominator of the scores.
IsMeanOfScores(a, ssp, I) ==
    LET den == [i \in I |-> ssp[i].score_percentage.d]
        common == Product(den, I)
        scaled == [i \in I |-> ssp[i].score_percentage.n * (common \div den[i])]
    IN /\ ~IsNaN(a)
       /\ a.n * Cardinality(I) * common = a.d * Sum(scaled, I)

\* a is the pooled ratio of the rows I: 100 * all correct / all answers.
IsPooledRatio(a, ssp, I) ==
    /\ ~IsNaN(a)
    /\ a.n * Sum([i \in I |-> ssp[i].count], I)
         = a.d * 100 * Sum([i \in I |-> ssp[i].sum], I)

\* calculate_average_performance has just returned.
Averaged == pc = "classify"

\* C2: for every section of the section-aggregate table there is one row of
\* averages, and it holds the unweighted arithmetic mean of the students'
\* score_percentage in that section: each student counts once.
C2_UnweightedMean ==
    Averaged =>
      \A sec \in Range(Sections) :
         LET I == SectionRowsOf(student_section_performance, sec)
             avgs == AvgValues(avg_section_performance, sec)
         IN /\ Len(avgs) = (IF I = {} THEN 0 ELSE 1)
            /\ (I # {} /\ \A i \in I :
                            ~IsNaN(student_section_performance[i].score_percentage))
                 => IsMeanOfScores(avgs[1], student_section_performance, I)

\* A section two students answered with different numbers of questions, where
\* the mean of their percentages is not the pooled ratio.
C2_Witness ==
    /\ Averaged
    /\ \E sec \in Range(Sections) :
          LET I == SectionRowsOf(student_section_performance, sec)
              a == AvgValues(avg_section_performance, sec)[1]
          IN /\ Cardinality(I) = 2
             /\ \E i, j \in I : student_section_performance[i].count
                                  # student_section_performance[j].count
             /\ \A i \in I : student_section_performance[i].count >= 1
             /\ IsMeanOfScores(a, student_section_performance, I)
             /\ ~IsPooledRatio(a, student_section_performance, I)

(***************************************************************************)
(* Properties of the classification.                                       *)
(***************************************************************************)
\* identify_strengths_weaknesses has just returned.
Classified == pc = "recommend"

\* The diffs of the comparison rows are numbers, no two of them equal.
DistinctDiffs(cmp) ==
    /\ \A i \in 1..Len(cmp) : ~IsNaN(cmp[i].diff)
    /\ \A i, j \in 1..Len(cmp) : i # j => cmp[i].diff # cmp[j].diff

\* The number of rows of cmp whose diff is above that of row i.
RowsAbove(cmp, i) == Cardinality({j \in 1..Len(cmp) : Gt(cmp[j].diff, cmp[i].diff)})

\* The section of the row of cmp with exactly k rows above it.
SectionRanked(cmp, k) ==
    cmp[CHOOSE i \in 1..Len(cmp) : RowsAbove(cmp, i) = k].section

\* C6: a student with exactly four sections gets exactly 2 strengths and 2
\* weaknesses; when the four diffs are distinct the two lists are disjoint and
\* the strengths are the two sections of highest diff, the higher first.
C6_FourSections ==
    Classified =>
      \A sid \in DOMAIN strengths_weaknesses :
         LET e == strengths_weaknesses[sid]
         IN Len(e.comparison) = 4 =>
              /\ Len(e.strengths) = 2
              /\ Len(e.weaknesses) = 2
              /\ DistinctDiffs(e.comparison) =>
                   /\ Range(e.strengths) \cap Range(e.weaknesses) = {}
                   /\ e.strengths[1] = SectionRanked(e.comparison, 0)
                   /\ e.strengths[2] = SectionRanked(e.comparison, 1)

\* A classified student with four sections of distinct diffs, the first row
\* of the table not being the strongest.
C6_Witness ==
    /\ Classified
    /\ \E sid \in DOMAIN strengths_weaknesses :
          LET e == strengths_weaknesses[sid]
          IN /\ Len(e.comparison) = 4
             /\ DistinctDiffs(e.comparison)
             /\ e.strengths[1] # e.comparison[1].section
             /\ e.strengths[1] = SectionRanked(e.comparison, 0)

\* C7: a student with exactly two sections, one of positive and one of
\* negative diff, gets the positive one as the only strength and the negative
\* one as the only weakness.
C7_TwoSections ==
    Classified =>
      \A sid \in DOMAIN strengths_weaknesses :
         LET e == strengths_weaknesses[sid]
             cmp == e.comparison
         IN \A i, j \in 1..Len(cmp) :
               (Len(cmp) = 2 /\ Gt(cmp[i].diff, Num(0)) /\ Lt(cmp[j].diff, Num(0)))
                  => /\ e.strengths = <<cmp[i].section>>
                     /\ e.weaknesses = <<cmp[j].section>>

\* C14 as stated: the weaknesses of every student are ordered with the section
\* of lowest diff first; with four sections of distinct diffs weaknesses[0] is
\* the section of minimum diff and weaknesses[1] that of second-lowest diff.
C14_WeakestFirst ==
    Classified =>
      \A sid \in DOMAIN strengths_weaknesses :
         LET e == strengths_weaknesses[sid]
             n == Len(e.comparison)
         IN (n >= 2 /\ DistinctDiffs(e.comparison)) =>
              /\ e.weaknesses[1] = SectionRanked(e.comparison, n - 1)
              /\ n = 4 => e.weaknesses[2] = SectionRanked(e.comparison, 2)

\* C14 as amended: the weaknesses of every student whose diffs are distinct
\* numbers are ordered with the section of lowest diff last; with four
\* sections weaknesses[1] is the section of minimum diff and weaknesses[0]
\* that of second-lowest diff.
C14_WeakestLast ==
    Classified =>
      \A sid \in DOMAIN strengths_weaknesses :
         LET e == strengths_weaknesses[sid]
             n == Len(e.comparison)
             w == Len(e.weaknesses)
         IN (n >= 2 /\ DistinctDiffs(e.comparison)) =>
              /\ w = 2
              /\ e.weaknesses[w] = SectionRanked(e.comparison, n - 1)
              /\ e.weaknesses[w - 1] = SectionRanked(e.comparison, n - 2)

\* A classified student with four sections of distinct diffs whose weakest
\* section is not the last row of the table: it is the last weakness, after
\* the section of second-lowest diff.
C14_Witness ==
    /\ Classified
    /\ \E sid \in DOMAIN strengths_weaknesses :
          LET e == strengths_weaknesses[sid]
          IN /\ Len(e.comparison) = 4
             /\ DistinctDiffs(e.comparison)
             /\ e.weaknesses[2] # e.comparison[4].section
             /\ e.weaknesses[2] = SectionRanked(e.comparison, 3)
             /\ e.weaknesses[1] = SectionRanked(e.comparison, 2)

\* The sections of the rows of a table.
SectionsOf(table) == {table[i].section : i \in 1..Len(table)}

\* A row of the section table has a section with no row in the average table.
Mismatched(ssp, avg) == ~(SectionsOf(ssp) \subseteq SectionsOf(avg))

RowOf(ssp, sid, sec) == ssp[CHOOSE i \in 1..Len(ssp) :
                              ssp[i].student_id = sid /\ ssp[i].section = sec]

\* C8: in weaknesses-only mode a text is produced only for a section in which
\* the student's score_percentage is below the section's average.
C8_WeaknessesBelowAverage ==
    (pc = "done" /\ all_sections = "False") =>
      \A sid \in DOMAIN recommendations :
         \A k \in 1..Len(recommendations[sid]) :
            LET sec == recommendations[sid][k].section
            IN Lt(RowOf(student_section_performance, sid, sec).score_percentage,
                  AvgValues(avg_section_performance, sec)[1])

\* The level of a row by its counts: 100 * sum / count against 80, 60, 40.
LevelOfRow(row) ==
    IF 100 * row.sum >= 80 * row.count THEN "excellent"
    ELSE IF 100 * row.sum >= 60 * row.count THEN "good"
    ELSE IF 100 * row.sum >= 40 * row.count THEN "fair"
    ELSE "poor"

\* block is the block of the rule table of section sec for the level.
IsTableBlock(block, sec, level) ==
    /\ Len(block) = (IF level = "poor" THEN 3 ELSE 2)
    /\ \A k \in 1..Len(block) :
          /\ block[k].table = "all"
          /\ block[k].section = sec
          /\ block[k].level = level
          /\ block[k].line = k

\* C10: in all-sections mode every student has, for every section of A, B, C,
\* D, a block of 1 to 3 strings exactly when the section is in the student's
\* aggregate and an empty list otherwise; the block is the one of the
\* section's rule table for the level of the student's score.
C10_AllSections ==
    (pc = "done" /\ all_sections = "True") =>
      /\ DOMAIN recommendations =
            {student_section_performance[i].student_id :
                i \in 1..Len(student_section_performance)}
      /\ \A sid \in DOMAIN recommendations :
            /\ DOMAIN recommendations[sid] = Range(Sections)
            /\ \A sec \in Range(Sections) :
                  LET block == recommendations[sid][sec]
                  IN IF RowsOf(student_section_performance, sid, sec) = {}
                     THEN block = <<>>
                     ELSE LET row == RowOf(student_section_performance, sid, sec)
                          IN /\ Len(block) \in 1..3
                             /\ row.count >= 1 =>
                                  IsTableBlock(block, sec, LevelOfRow(row))

\* A student with a section taken and a section not taken, and two sections
\* of different levels.
C10_Witness ==
    /\ pc = "done" /\ all_sections = "True"
    /\ \E sid \in DOMAIN recommendations :
          /\ \E sec \in Range(Sections) : recommendations[sid][sec] = <<>>
          /\ \E s1, s2 \in Range(Sections) :
                /\ Len(recommendations[sid][s1]) = 3
                /\ Len(recommendations[sid][s2]) = 2
                /\ recommendations[sid][s2][1].level = "fair"

(***************************************************************************)
(* Properties of the tiers.                                                *)
(***************************************************************************)
\* C9: performance_level is excellent for score >= 80, good for 60 <= score
\* < 80, fair for 40 <= score < 60 and poor below 40; relation_to_avg is above
\* average for diff > 5, below average for diff < -5 and at the class average
\* for -5 <= diff <= 5.
C9_Tiers ==
    call.done =>
      LET first == call.result[1]
          diff == call.score - call.avg_score
      IN /\ first.level =
              (IF call.score >= 800 THEN "excellent"
               ELSE IF call.score >= 600 THEN "good"
               ELSE IF call.score >= 400 THEN "fair"
               ELSE "poor")
         /\ first.relation =
              (IF diff > 50 THEN "above average"
               ELSE IF diff < -50 THEN "below average"
               ELSE "at the class average")
         /\ \A k \in 1..Len(call.result) : call.result[k].level = first.level

\* A call with a score of exactly 80 and a diff of exactly 5.
C9_Witness ==
    /\ call.done
    /\ call.score = 800
    /\ call.score - call.avg_score = 50
    /\ call.result[1].level = "excellent"
    /\ call.result[1].relation = "at the class average"

(***************************************************************************)
(* Properties of the persisted dataset.                                    *)
(***************************************************************************)
\* The spelling of a cell without its case: read_csv takes true and True for
\* the same value and to_csv writes it True.
Spelling(v) ==
    CASE v \in TrueValues -> "true"
      [] v \in FalseValues -> "false"
      [] OTHER -> v

\* The records of a student in a file, in order, cells without their case.
StudentRecords(file, sid) ==
    LET g == SelectRows(file, [i \in 1..Len(file) |-> file[i].student_id = sid])
    IN [i \in 1..Len(g) |-> [g[i] EXCEPT !.is_correct = Spelling(@)]]

\* C11: after every upload the persisted dataset holds, for every student_id
\* of the upload, exactly the records of that upload, and for every other
\* student_id the records it held before: no record of an earlier upload of a
\* student of the upload remains, also when the upload holds more than one
\* student_id or is merged again on a re-run.
C11_LastWriteWins ==
    [][upload_new_student_data =>
         \A sid \in Students :
            StudentRecords(database'.rows, sid) =
               IF sid \in StudentIds(new_student_data')
               THEN StudentRecords(to_csv(new_student_data'), sid)
               ELSE StudentRecords(database.rows, sid)]_vars

(***************************************************************************)
(* Properties of a second run.                                             *)
(***************************************************************************)
\* The comparison tables of a classification, by student.
ComparisonsOf(sw) == [sid \in DOMAIN sw |-> sw[sid].comparison]

\* No student has two sections the sort may return in either order.
TieFree(sw) == \A sid \in DOMAIN sw : DistinctDiffs(sw[sid].comparison)

\* C12: the second of two runs of the pipeline on the same dataset object
\* returns the aggregate, the averages, the classification and the
\* recommendations the first run returned.
C12_SecondRunIdentical ==
    previous.ran =>
      /\ pc \in {"average", "classify", "recommend", "done"} =>
           /\ student_section_performance = previous.student_section_performance
           /\ student_overall = previous.student_overall
      /\ pc \in {"classify", "recommend", "done"} =>
           /\ avg_section_performance = previous.avg_section_performance
           /\ avg_overall_performance = previous.avg_overall_performance
      /\ pc \in {"recommend", "done"} =>
           /\ ComparisonsOf(strengths_weaknesses)
                = ComparisonsOf(previous.strengths_weaknesses)
           /\ TieFree(strengths_weaknesses) =>
                strengths_weaknesses = previous.strengths_weaknesses
      /\ (/\ pc = "done"
          /\ all_sections = previous.all_sections
          /\ all_sections = "True" \/ TieFree(strengths_weaknesses)) =>
           recommendations = previous.recommendations

(***************************************************************************)
(* Properties of the evaluation.                                           *)
(***************************************************************************)
\* The rows of the prediction table for student sid.
PredictionsOf(rows, sid) == {j \in 1..Len(rows) : rows[j].student_id = sid}

\* C13: for every dataset evaluate_model returns accuracy 95.0, precision 93.0
\* and exactly one prediction row per distinct student_id of the dataset,
\* labeled "Above Average" as predicted and as actual performance, with
\* correct_prediction true, whatever the sections and is_correct cells are.
C13_EvaluateStub ==
    evaluation.returned =>
      /\ evaluation.accuracy = Num(95)
      /\ evaluation.precision = Num(93)
      /\ \A sid \in Students :
            Cardinality(PredictionsOf(evaluation.model_results, sid)) =
               IF sid \in StudentIds(data) THEN 1 ELSE 0
      /\ \A j \in 1..Len(evaluation.model_results) :
            LET row == evaluation.model_results[j]
            IN /\ row.student_id \in StudentIds(data)
               /\ row.predicted_performance = "Above Average"
               /\ row.actual_performance = "Above Average"
               /\ row.correct_prediction = TRUE

\* An evaluation of a dataset with two records of one student that differ in
\* section and in is_correct: one prediction row.
C13_Witness ==
    /\ evaluation.returned
    /\ Len(evaluation.model_results) = 1
    /\ \E i, j \in 1..Len(data) :
          /\ i # j
          /\ data[i].student_id = data[j].student_id
          /\ data[i].section # data[j].section
          /\ data[i].is_correct # data[j].is_correct

====
